---- MODULE Spec2Model ----
(***************************************************************************)
(* Invoice generator: the per-day invoice sequence allocator (db.py), the  *)
(* monetary totals and the text parsers (utils.py), and the generation     *)
(* handler that ties them to the PDF renderer and the invoices table       *)
(* (main.py, pdf_generator.py).                                            *)
(*                                                                         *)
(* Text is a sequence of one-character strings, so that strip, split,      *)
(* the regular-expression filter, the zero padding and the string order of *)
(* the ORDER BY are computed character by character.                       *)
(*                                                                         *)
(* A Python float is a whole number of millionths (Micro).  The texts the  *)
(* model draws have at most 3 fractional digits for amounts and 1 for the  *)
(* tax rate, and never produce an exact half cent, so sums, products and   *)
(* round(x, 2) agree with binary floating point on them.                   *)
(***************************************************************************)
EXTENDS Integers, Sequences, FiniteSets, TLC

(***************************************************************************)
(* Bounds of the model.                                                    *)
(***************************************************************************)
MaxAttempts == 2

MaxItems == 2

MaxTextLen == 3

(***************************************************************************)
(* Characters and text.                                                    *)
(***************************************************************************)
Digits == <<"0", "1", "2", "3", "4", "5", "6", "7", "8", "9">>

\* The characters of the model in ASCII order (the order of memcmp, which
\* is SQLite's BINARY collation used by ORDER BY order_number).
AsciiOrder ==
    <<" ", "$", "(", ")", "+", ",", "-", ".", "/",
      "0", "1", "2", "3", "4", "5", "6", "7", "8", "9",
      "A", "D", "E", "I", "J", "K", "L", "N", "P", "R", "S", "U", "V",
      "a", "b", "c", "d", "e", "h", "n", "o", "r">>

Code(c) == CHOOSE i \in 1..Len(AsciiOrder) : AsciiOrder[i] = c

IsDigit(c) == \E i \in 1..Len(Digits) : Digits[i] = c

DigitVal(c) == (CHOOSE i \in 1..Len(Digits) : Digits[i] = c) - 1

IsSpace(c) == c = " "

RECURSIVE LStrip(_)
LStrip(s) ==
    IF s = <<>> THEN s
    ELSE IF IsSpace(Head(s)) THEN LStrip(Tail(s)) ELSE s

RECURSIVE RStrip(_)
RStrip(s) ==
    IF s = <<>> THEN s
    ELSE IF IsSpace(s[Len(s)]) THEN RStrip(SubSeq(s, 1, Len(s) - 1)) ELSE s

\* The text as typed, blanks kept.
Unstripped(s) == s

\* str.strip()
Strip(s) == RStrip(LStrip(s))

\* str.split(sep): the pieces between the occurrences of the character sep.
RECURSIVE Split(_, _)
Split(s, sep) ==
    IF \A i \in 1..Len(s) : s[i] # sep THEN <<s>>
    ELSE LET k == CHOOSE i \in 1..Len(s) :
                      s[i] = sep /\ \A j \in 1..(i - 1) : s[j] # sep
         IN  <<SubSeq(s, 1, k - 1)>> \o Split(SubSeq(s, k + 1, Len(s)), sep)

AllDigits(s) == \A i \in 1..Len(s) : IsDigit(s[i])

\* Value of a sequence of decimal digits.
RECURSIVE ParseNat(_)
ParseNat(s) ==
    IF s = <<>> THEN 0
    ELSE 10 * ParseNat(SubSeq(s, 1, Len(s) - 1)) + DigitVal(s[Len(s)])

\* Decimal digits of n >= 0, without padding.
RECURSIVE NatDigits(_)
NatDigits(n) ==
    IF n < 10 THEN <<Digits[n + 1]>>
    ELSE NatDigits(n \div 10) \o <<Digits[(n % 10) + 1]>>

RECURSIVE ZeroPad(_, _)
ZeroPad(s, width) == IF Len(s) >= width THEN s ELSE ZeroPad(<<"0">> \o s, width)

\* s < t in the byte order of the two strings: decided at the first
\* position where they differ, a proper prefix being the smaller.
StrLess(s, t) ==
    LET n == IF Len(s) < Len(t) THEN Len(s) ELSE Len(t)
        differ == {i \in 1..n : s[i] # t[i]}
        k == CHOOSE i \in differ : \A j \in differ : i <= j
    IN  IF differ = {} THEN Len(s) < Len(t)
        ELSE Code(s[k]) < Code(t[k])

StartsWith(s, p) == Len(s) >= Len(p) /\ SubSeq(s, 1, Len(p)) = p

(***************************************************************************)
(* Numbers.                                                                *)
(***************************************************************************)
Micro == 1000 * 1000

Cent == Micro \div 100

\* float('nan'): the one float that is no number of millionths.  It stands
\* apart from every amount of the model, and no arithmetic of the model is
\* applied to it; x >= 0 is False for it as it is in Python.
NaN == 0 - 2147483647

\* float(text) on the characters of the model: surrounding blanks, an
\* optional sign, digits with at most one point and at least one digit, or
\* the word nan.  Anything else is a ValueError (ok = FALSE).
PyFloat(text) ==
    LET t == Strip(text)
        signed == t # <<>> /\ Head(t) \in {"-", "+"}
        body == IF signed THEN Tail(t) ELSE t
        parts == Split(body, ".")
        ip == parts[1]
        fp == IF Len(parts) > 1 THEN parts[2] ELSE <<>>
        wellformed == /\ Len(parts) <= 2
                      /\ AllDigits(ip)
                      /\ AllDigits(fp)
                      /\ Len(ip) + Len(fp) >= 1
                      /\ Len(fp) <= 6
        frac == ParseNat(fp \o [i \in 1..(6 - Len(fp)) |-> "0"])
        mag == ParseNat(ip) * Micro + frac
    IN  IF t = <<"n", "a", "n">>
        THEN [ok |-> TRUE, val |-> NaN]
        ELSE IF wellformed
        THEN [ok |-> TRUE, val |-> IF signed /\ Head(t) = "-" THEN 0 - mag ELSE mag]
        ELSE [ok |-> FALSE, val |-> 0]

\* int(text): surrounding blanks, an optional sign, at least one digit.
PyInt(text) ==
    LET t == Strip(text)
        signed == t # <<>> /\ Head(t) \in {"-", "+"}
        body == IF signed THEN Tail(t) ELSE t
    IN  IF body # <<>> /\ AllDigits(body)
        THEN [ok |-> TRUE,
              val |-> IF signed /\ Head(t) = "-" THEN 0 - ParseNat(body)
                      ELSE ParseNat(body)]
        ELSE [ok |-> FALSE, val |-> 0]

\* round(x, 2) of x millionths, ties to the even cent.
Round2(x) ==
    LET q == x \div Cent
        r == x % Cent
    IN  IF 2 * r < Cent THEN q * Cent
        ELSE IF 2 * r > Cent THEN (q + 1) * Cent
        ELSE IF q % 2 = 0 THEN q * Cent ELSE (q + 1) * Cent

(***************************************************************************)
(* utils.py                                                                *)
(***************************************************************************)
\* The characters re.sub(r'[^\d.,\-]', '', ...) keeps.
KeptByCleaning(c) == IsDigit(c) \/ c \in {".", ",", "-"}

NotComma(c) == c # ","

\* float() of the cleaned text of parse_currency_input.
CleanedFloat(cleaned) ==
    IF cleaned = <<>> THEN [ok |-> TRUE, val |-> 0]
    ELSE PyFloat(SelectSeq(cleaned, NotComma))

\* ok = FALSE is the ValueError.
parse_currency_input(value) ==
    CleanedFloat(SelectSeq(Strip(value), KeptByCleaning))

\* CURRENCY_SYMBOLS.get(currency_code, '$'); the euro sign is one character.
EuroSign == "EURO SIGN"

CurrencySymbol(currency_code) ==
    IF currency_code = "EUR" THEN <<EuroSign>>
    ELSE IF currency_code = "LKR" THEN <<"R", "s", ".", " ">>
    ELSE <<"$">>

\* The ',' option of the format specification: a comma before every group
\* of 3 integer digits.
RECURSIVE Group3(_)
Group3(digits) ==
    IF Len(digits) <= 3 THEN digits
    ELSE Group3(SubSeq(digits, 1, Len(digits) - 3))
             \o <<",">> \o SubSeq(digits, Len(digits) - 2, Len(digits))

\* f"{amount:,.2f}"
FormatGrouped2f(amount) ==
    LET r == Round2(amount)
        a == IF r < 0 THEN 0 - r ELSE r
    IN  (IF amount < 0 THEN <<"-">> ELSE <<>>)
            \o Group3(NatDigits(a \div Micro))
            \o <<".">>
            \o ZeroPad(NatDigits((a % Micro) \div Cent), 2)

\* str.replace(old, new) for one-character old and new.
Replace(s, old, new) == [i \in 1..Len(s) |-> IF s[i] = old THEN new ELSE s[i]]

\* .replace(',', 'X').replace('.', ',').replace('X', '.')
EuropeanStyle(formatted) ==
    Replace(Replace(Replace(formatted, ",", "X"), ".", ","), "X", ".")

UsStyleForEveryCode(amount, currency_code) ==
    CurrencySymbol(currency_code) \o FormatGrouped2f(amount)

format_currency(amount, currency_code) ==
    IF currency_code = "EUR"
    THEN CurrencySymbol(currency_code) \o EuropeanStyle(FormatGrouped2f(amount))
    ELSE CurrencySymbol(currency_code) \o FormatGrouped2f(amount)

validate_phone(phone) ==
    IF Strip(phone) = <<>> THEN <<FALSE, "Phone number is required">>
    ELSE <<TRUE, "">>

validate_positive_number(value, field_name) ==
    LET num == parse_currency_input(value)
    IN  IF ~num.ok THEN <<FALSE, field_name \o " must be a valid number">>
        ELSE IF num.val < 0 THEN <<FALSE, field_name \o " must be a positive number">>
        ELSE <<TRUE, "">>

validate_quantity(value) ==
    LET qty == PyInt(Strip(value))
    IN  IF ~qty.ok THEN <<FALSE, "Quantity must be a valid integer">>
        ELSE IF qty.val <= 0 THEN <<FALSE, "Quantity must be greater than 0">>
        ELSE <<TRUE, "">>

calculate_line_total(quantity, unit_price) == quantity * unit_price

\* sum(item['quantity'] * item['unit_price'] for item in items)
RECURSIVE SumLines(_)
SumLines(items) ==
    IF items = <<>> THEN 0
    ELSE SumLines(SubSeq(items, 1, Len(items) - 1))
         + items[Len(items)].quantity * items[Len(items)].unit_price

\* amount * (rate / 100.0), exact for amounts in thousandths and rates in
\* tenths of a percent.
PercentOf(amount, rate) == (amount \div 1000) * (rate \div (Micro \div 10))

\* A total that is never below zero.
CalcTotalFloorZero(subtotal, tax_amount, discount_amount) ==
    IF subtotal + tax_amount - discount_amount < 0 THEN 0
    ELSE Round2(subtotal + tax_amount - discount_amount)

CalcTotalFromRounded(subtotal, tax_amount, discount_amount) ==
    Round2(Round2(subtotal) + Round2(tax_amount) - Round2(discount_amount))

CalcTotal(subtotal, tax_amount, discount_amount) ==
    Round2(subtotal + tax_amount - discount_amount)

calculate_invoice_totals(items, tax_rate, discount) ==
    LET subtotal == SumLines(items)
        tax_amount == PercentOf(subtotal, tax_rate)
        discount_amount == discount
    IN  [subtotal |-> Round2(subtotal),
         tax_amount |-> Round2(tax_amount),
         discount_amount |-> Round2(discount_amount),
         total |-> CalcTotal(subtotal, tax_amount, discount_amount)]

(***************************************************************************)
(* Dates: datetime.strptime(text, "%Y-%m-%d") and strftime.                *)
(***************************************************************************)
IsLeap(y) == (y % 4 = 0 /\ y % 100 # 0) \/ y % 400 = 0

DaysInMonth(y, m) ==
    IF m = 2 THEN (IF IsLeap(y) THEN 28 + 1 ELSE 28)
    ELSE IF m \in {4, 6, 9, 11} THEN 30 ELSE 30 + 1

\* ok = FALSE is the ValueError of strptime.
strptime(text) ==
    LET parts == Split(text, "-")
        shaped == /\ Len(parts) = 3
                  /\ Len(parts[1]) = 4 /\ AllDigits(parts[1])
                  /\ Len(parts[2]) \in {1, 2} /\ AllDigits(parts[2])
                  /\ Len(parts[3]) \in {1, 2} /\ AllDigits(parts[3])
        y == ParseNat(parts[1])
        m == ParseNat(parts[2])
        d == ParseNat(parts[3])
    IN  IF shaped /\ y >= 1 /\ m \in 1..12 /\ d >= 1 /\ d <= DaysInMonth(y, m)
        THEN [ok |-> TRUE, year |-> y, month |-> m, day |-> d]
        ELSE [ok |-> FALSE, year |-> 0, month |-> 0, day |-> 0]

\* date.strftime("%Y%m%d")
get_date_string_for_sequence(date) ==
    ZeroPad(NatDigits(date.year), 4) \o ZeroPad(NatDigits(date.month), 2)
        \o ZeroPad(NatDigits(date.day), 2)

\* date.strftime("%Y-%m-%d")
StrftimeIso(date) ==
    ZeroPad(NatDigits(date.year), 4) \o <<"-">> \o ZeroPad(NatDigits(date.month), 2)
        \o <<"-">> \o ZeroPad(NatDigits(date.day), 2)

SeqWidth == 5

\* f"{sequence:05d}"
Format05d(sequence) == ZeroPad(NatDigits(sequence), SeqWidth)

generate_order_number(date, sequence) ==
    <<"I", "N", "V", "-">> \o get_date_string_for_sequence(date) \o <<"-">>
        \o Format05d(sequence)

(***************************************************************************)
(* db.py: the invoices table.  A row is a record of the table's columns;   *)
(* the table is the sequence of its rows in insertion order.               *)
(***************************************************************************)
OrderNumbers(table) == {table[i].order_number : i \in 1..Len(table)}

\* WHERE order_number LIKE 'INV-<date_str>-%'
LikePattern(date_str) == <<"I", "N", "V", "-">> \o date_str \o <<"-">>

MatchingOrderNumbers(table, date_str) ==
    {o \in OrderNumbers(table) : StartsWith(o, LikePattern(date_str))}

\* ORDER BY order_number DESC LIMIT 1
GreatestString(S) == CHOOSE o \in S : \A p \in S : ~StrLess(o, p)

\* int(order_num.split('-')[-1])
SequenceOf(order_num) ==
    LET parts == Split(order_num, "-") IN PyInt(parts[Len(parts)]).val

NextByRowCount(table, date_str) == Len(table) + 1

get_next_invoice_sequence(table, date_str) ==
    LET found == MatchingOrderNumbers(table, date_str)
    IN  IF found # {} THEN SequenceOf(GreatestString(found)) + 1 ELSE 1

NextRowId(table) ==
    IF table = <<>> THEN 1 ELSE table[Len(table)].id + 1

\* INSERT OR REPLACE: a row with the same order number is replaced.
InsertOrReplace(table, row, storage_ok) ==
    IF ~storage_ok THEN [ok |-> FALSE, table |-> table]
    ELSE IF row.order_number \in OrderNumbers(table)
    THEN [ok |-> TRUE,
          table |-> [i \in 1..Len(table) |->
                        IF table[i].order_number = row.order_number
                        THEN [row EXCEPT !.id = table[i].id]
                        ELSE table[i]]]
    ELSE [ok |-> TRUE, table |-> Append(table, [row EXCEPT !.id = NextRowId(table)])]

InsertWithoutUnique(table, row, storage_ok) ==
    IF storage_ok
    THEN [ok |-> TRUE, table |-> Append(table, [row EXCEPT !.id = NextRowId(table)])]
    ELSE [ok |-> FALSE, table |-> table]

\* INSERT INTO invoices; order_number is UNIQUE, and any sqlite3.Error
\* (the constraint, or a storage failure: storage_ok = FALSE) is caught and
\* reported as False.
save_invoice(table, row, storage_ok) ==
    IF storage_ok /\ row.order_number \notin OrderNumbers(table)
    THEN [ok |-> TRUE, table |-> Append(table, [row EXCEPT !.id = NextRowId(table)])]
    ELSE [ok |-> FALSE, table |-> table]

\* SELECT COUNT(*) FROM settings is 0.
is_first_run(settings_table) == Len(settings_table) = 0

\* The row with id = 1, or None.
get_company_settings(settings_table) ==
    LET found == SelectSeq(settings_table, LAMBDA r : r.id = 1)
    IN  IF found = <<>> THEN [found |-> FALSE]
        ELSE [found |-> TRUE, row |-> found[1]]

\* An INSERT whatever the table holds: the primary key refuses a second row.
InsertSettingsOnly(settings_table, values, now, storage_ok) ==
    IF storage_ok /\ ~get_company_settings(settings_table).found
    THEN [ok |-> TRUE,
          table |-> Append(settings_table,
                        [id |-> 1,
                         company_name |-> values.company_name,
                         company_address |-> values.company_address,
                         company_phone |-> values.company_phone,
                         logo_path |-> values.logo_path,
                         default_currency |-> values.default_currency,
                         output_folder |-> values.output_folder,
                         invoice_sequence |-> 0,
                         created_at |-> now,
                         updated_at |-> now])]
    ELSE [ok |-> FALSE, table |-> settings_table]

\* save_company_settings at time now: UPDATE of the row with id = 1 when it
\* exists, INSERT of it otherwise; storage_ok = FALSE is a sqlite3.Error,
\* which leaves the table as it was and returns False.
save_company_settings(settings_table, values, now, storage_ok) ==
    IF ~storage_ok THEN [ok |-> FALSE, table |-> settings_table]
    ELSE IF get_company_settings(settings_table).found
    THEN [ok |-> TRUE,
          table |-> [i \in 1..Len(settings_table) |->
                        IF settings_table[i].id = 1
                        THEN [settings_table[i] EXCEPT
                                 !.company_name = values.company_name,
                                 !.company_address = values.company_address,
                                 !.company_phone = values.company_phone,
                                 !.logo_path = values.logo_path,
                                 !.default_currency = values.default_currency,
                                 !.output_folder = values.output_folder,
                                 !.updated_at = now]
                        ELSE settings_table[i]]]
    ELSE InsertSettingsOnly(settings_table, values, now, storage_ok)

(***************************************************************************)
(* pdf_generator.py: what the rendered document shows.                     *)
(***************************************************************************)
\* _build_totals_section computes the totals it shows.
TotalsBeforeDiscount(items, tax_rate, discount_amount) ==
    calculate_invoice_totals(items, tax_rate, 0)

DocumentTotals(items, tax_rate, discount_amount) ==
    calculate_invoice_totals(items, tax_rate, discount_amount)

\* The four rows whatever the tax rate and the discount are.
TotalsSectionOfFourRows(items, currency, tax_rate, discount_amount) ==
    LET totals == DocumentTotals(items, tax_rate, discount_amount)
    IN  <<[label |-> "Subtotal:", text |-> format_currency(totals.subtotal, currency)],
          [label |-> "Tax:", text |-> format_currency(totals.tax_amount, currency)],
          [label |-> "Discount:",
           text |-> <<"-", " ">> \o format_currency(totals.discount_amount, currency)],
          [label |-> "TOTAL DUE:", text |-> format_currency(totals.total, currency)]>>

\* The rows of the totals table, in order: the subtotal, the tax when the
\* rate is positive (its label also carries the rate), the discount when it
\* is positive, the grand total.
build_totals_section(items, currency, tax_rate, discount_amount) ==
    LET totals == DocumentTotals(items, tax_rate, discount_amount)
    IN  <<[label |-> "Subtotal:", text |-> format_currency(totals.subtotal, currency)]>>
        \o (IF tax_rate > 0
            THEN <<[label |-> "Tax:",
                    text |-> format_currency(totals.tax_amount, currency)]>>
            ELSE <<>>)
        \o (IF discount_amount > 0
            THEN <<[label |-> "Discount:",
                    text |-> <<"-", " ">>
                               \o format_currency(totals.discount_amount, currency)]>>
            ELSE <<>>)
        \o <<[label |-> "TOTAL DUE:", text |-> format_currency(totals.total, currency)]>>

\* The image files a logo path may name: "image" opens as an image,
\* "unreadable" exists and makes PILImage.open raise; any other path names
\* no file.
GoodLogoPath == <<"a", ".", "p", "n", "g">>

BrokenLogoPath == <<"b", ".", "p", "n", "g">>

MissingLogoPath == <<"c", ".", "p", "n", "g">>

LogoFiles ==
    [p \in {GoodLogoPath, BrokenLogoPath} |->
        IF p = GoodLogoPath THEN "image" ELSE "unreadable"]

\* None
NoLogo == [image |-> FALSE, path |-> <<>>, raised |-> FALSE]

\* The exception of a missing or unreadable logo file leaves _process_logo.
ProcessLogoUncaught(logo_path) ==
    IF logo_path \in DOMAIN LogoFiles /\ LogoFiles[logo_path] = "image"
    THEN [image |-> TRUE, path |-> logo_path, raised |-> FALSE]
    ELSE [image |-> FALSE, path |-> <<>>, raised |-> TRUE]

\* _process_logo: None when the file does not exist, None from the except
\* branch when it cannot be opened, the scaled image otherwise.
process_logo(logo_path) ==
    IF logo_path \notin DOMAIN LogoFiles THEN NoLogo
    ELSE IF LogoFiles[logo_path] # "image" THEN NoLogo
    ELSE [image |-> TRUE, path |-> logo_path, raised |-> FALSE]

\* logo = None; if company_data.get('logo_path'): logo = _process_logo(...)
HeaderLogo(company_data) ==
    IF company_data.logo_path # <<>> THEN process_logo(company_data.logo_path)
    ELSE NoLogo

\* The left column of the header: the logo when there is one, then the
\* company name, address and phone.
build_header(company_data, logo) ==
    (IF logo.image THEN <<[kind |-> "logo", content |-> logo.path]>> ELSE <<>>)
        \o <<[kind |-> "company_name", content |-> company_data.company_name],
              [kind |-> "company_address", content |-> company_data.company_address],
              [kind |-> "company_phone", content |-> company_data.company_phone]>>

\* Normal spacing unless the quantities add up to 3 or less.
RECURSIVE TotalQuantity(_)
TotalQuantity(items) ==
    IF items = <<>> THEN 0 ELSE Head(items).quantity + TotalQuantity(Tail(items))

ScaleByTotalQuantity(items) == IF TotalQuantity(items) <= 3 THEN 6 ELSE 10

\* spacer_scale in tenths: 0.6 for 3 items or fewer, 1.0 otherwise.
SpacerScale(items) == IF Len(items) <= 3 THEN 6 ELSE 10

\* The unit price shown in the place of the line total.
ItemUnitPrice(item) == item.unit_price

\* _build_items_table computes the line total of each row it shows.
ItemLineTotal(item) == calculate_line_total(item.quantity, item.unit_price)

\* The rows of the items table under its header, one per item in order.
build_items_table(items, currency) ==
    [i \in 1..Len(items) |->
        [number |-> NatDigits(i),
         description |-> items[i].description,
         quantity |-> NatDigits(items[i].quantity),
         unit_price |-> format_currency(items[i].unit_price, currency),
         line_total |-> format_currency(ItemLineTotal(items[i]), currency)]]

InvoiceDocument(invoice_data, company_data, items) ==
    [order_number |-> invoice_data.order_number,
     billing_name |-> invoice_data.billing_name,
     company_name |-> company_data.company_name,
     raised |-> HeaderLogo(company_data).raised,
     spacer_scale |-> SpacerScale(items),
     header |-> build_header(company_data, HeaderLogo(company_data)),
     items |-> items,
     items_table |-> build_items_table(items, invoice_data.currency),
     totals |-> DocumentTotals(items, invoice_data.tax_rate,
                               invoice_data.discount_amount),
     totals_section |-> build_totals_section(items, invoice_data.currency,
                            invoice_data.tax_rate, invoice_data.discount_amount)]

(***************************************************************************)
(* main.py: the invoice form and the generation handler.                   *)
(***************************************************************************)
PlaceholderName == <<"J", "o", "h", "n", " ", "D", "o", "e">>

PlaceholderPhone ==
    <<"+", "1", " ", "(", "5", "5", "5", ")", " ",
      "1", "2", "3", "-", "4", "5", "6", "7">>

\* First index of s that satisfies Bad, 0 when there is none.
FirstIndex(s, Bad(_)) ==
    IF \E i \in 1..Len(s) : Bad(s[i])
    THEN CHOOSE i \in 1..Len(s) : Bad(s[i]) /\ \A j \in 1..(i - 1) : ~Bad(s[j])
    ELSE 0

HasDescription(item) == Strip(item.description) # <<>>

ItemInvalid(item) ==
    /\ HasDescription(item)
    /\ \/ ~validate_quantity(Strip(item.quantity))[1]
       \/ ~validate_positive_number(Strip(item.unit_price), "Unit price")[1]

ItemError(item) ==
    IF ~validate_quantity(Strip(item.quantity))[1]
    THEN "Invalid quantity: " \o validate_quantity(Strip(item.quantity))[2]
    ELSE "Invalid price: "
             \o validate_positive_number(Strip(item.unit_price), "Unit price")[2]

validate_invoice_form(f) ==
    LET billing_name == Strip(f.billing_name)
        billing_phone == Strip(f.billing_phone)
        bad == FirstIndex(f.line_items, ItemInvalid)
    IN  IF billing_name = <<>> \/ billing_name = PlaceholderName
        THEN <<FALSE, "Customer name is required">>
        ELSE IF Strip(f.billing_address) = <<>>
        THEN <<FALSE, "Billing address is required">>
        ELSE IF billing_phone = PlaceholderPhone \/ billing_phone = <<>>
        THEN <<FALSE, "Phone number is required">>
        ELSE IF ~validate_phone(billing_phone)[1]
        THEN validate_phone(billing_phone)
        ELSE IF ~strptime(f.date).ok
        THEN <<FALSE, "Invalid date format (use YYYY-MM-DD)">>
        ELSE IF ~validate_positive_number(f.tax_rate, "Tax rate")[1]
        THEN validate_positive_number(f.tax_rate, "Tax rate")
        ELSE IF ~validate_positive_number(f.discount, "Discount")[1]
        THEN validate_positive_number(f.discount, "Discount")
        ELSE IF f.line_items = <<>>
        THEN <<FALSE, "At least one line item is required">>
        ELSE IF bad # 0
        THEN <<FALSE, ItemError(f.line_items[bad])>>
        ELSE IF SelectSeq(f.line_items, HasDescription) = <<>>
        THEN <<FALSE, "At least one line item with description is required">>
        ELSE <<TRUE, "">>

\* The item dicts collect_invoice_data builds from the rows with a
\* description.
CollectedItems(line_items) ==
    LET rows == SelectSeq(line_items, HasDescription)
    IN  [i \in 1..Len(rows) |->
            [description |-> Strip(rows[i].description),
             quantity |-> PyInt(rows[i].quantity).val,
             unit_price |-> PyFloat(rows[i].unit_price).val]]

ItemConversionFails(item) ==
    HasDescription(item) /\ (~PyInt(item.quantity).ok \/ ~PyFloat(item.unit_price).ok)

\* The conversions of collect_invoice_data, which read the form only.
\* parsed = FALSE: strptime raised; raised = TRUE: a float() or int()
\* conversion raised ValueError.
ConvertedFields(f) ==
    LET invoice_date == strptime(f.date)
        raised == \/ ~PyFloat(f.tax_rate).ok
                  \/ ~PyFloat(f.discount).ok
                  \/ FirstIndex(f.line_items, ItemConversionFails) # 0
    IN  IF ~invoice_date.ok \/ raised
        THEN [parsed |-> invoice_date.ok, raised |-> TRUE,
              invoice_date |-> invoice_date,
              date_str |-> get_date_string_for_sequence(invoice_date),
              fields |-> <<>>, items |-> <<>>]
        ELSE [parsed |-> TRUE, raised |-> FALSE,
              invoice_date |-> invoice_date,
              date_str |-> get_date_string_for_sequence(invoice_date),
              fields |-> [invoice_date |-> invoice_date,
                          billing_name |-> Strip(f.billing_name),
                          billing_address |-> Strip(f.billing_address),
                          billing_phone |-> Strip(f.billing_phone),
                          currency |-> f.currency,
                          tax_rate |-> PyFloat(f.tax_rate).val,
                          discount_amount |-> PyFloat(f.discount).val],
              items |-> CollectedItems(f.line_items)]

WithOrderNumber(fields, order_number) ==
    [order_number |-> order_number,
     invoice_date |-> fields.invoice_date,
     billing_name |-> fields.billing_name,
     billing_address |-> fields.billing_address,
     billing_phone |-> fields.billing_phone,
     currency |-> fields.currency,
     tax_rate |-> fields.tax_rate,
     discount_amount |-> fields.discount_amount]

\* collect_invoice_data: the date is parsed, the sequence is queried and
\* the order number built, then the fields are converted (k: their
\* conversions).  A ValueError of strptime comes before the query, one of
\* float() or int() after it.
collect_invoice_data(k, table) ==
    LET sequence == get_next_invoice_sequence(table, k.date_str)
        order_number == generate_order_number(k.invoice_date, sequence)
    IN  IF ~k.parsed
        THEN [parsed |-> FALSE, raised |-> TRUE, order_number |-> <<>>,
              invoice_data |-> <<>>, items |-> <<>>]
        ELSE IF k.raised
        THEN [parsed |-> TRUE, raised |-> TRUE, order_number |-> order_number,
              invoice_data |-> <<>>, items |-> <<>>]
        ELSE [parsed |-> TRUE, raised |-> FALSE, order_number |-> order_number,
              invoice_data |-> WithOrderNumber(k.fields, order_number),
              items |-> k.items]

\* A file named by the day part of the order number only.
PdfPathOfDay(output_folder, order_number) ==
    output_folder \o <<"/">> \o SubSeq(order_number, 1, 12) \o <<".", "p", "d", "f">>

\* output_folder / f"{order_number}.pdf"
PdfPath(output_folder, order_number) ==
    output_folder \o <<"/">> \o order_number \o <<".", "p", "d", "f">>

GoesOnWhenInvalid(valid) == FALSE

\* if not valid: showerror; return
StopsWhenInvalid(valid) == ~valid

GoesOnWhenPdfFails(success) == FALSE

\* if not success: showerror; return (and the except branch)
StopsWhenPdfFails(success) == ~success

\* The file system after create_invoice_pdf: render = "ok" writes the whole
\* document and returns True; "false" returns False and writes nothing;
\* "partial" returns False with a truncated file left at the path; "raise"
\* raises before anything is written.  An exception raised while the story
\* is built (document.raised) is caught by generate, which returns False.
WriteFile(fs, path, content) ==
    [p \in (DOMAIN fs) \cup {path} |-> IF p = path THEN content ELSE fs[p]]

create_invoice_pdf(fs, path, document, render) ==
    IF render = "ok" /\ ~document.raised
    THEN [success |-> TRUE, raised |-> FALSE,
          fs |-> WriteFile(fs, path, [document |-> document, complete |-> TRUE])]
    ELSE IF render = "partial"
    THEN [success |-> FALSE, raised |-> FALSE,
          fs |-> WriteFile(fs, path, [document |-> document, complete |-> FALSE])]
    ELSE [success |-> FALSE, raised |-> render = "raise", fs |-> fs]

\* The row generate_invoice hands to save_invoice.
InvoiceRow(invoice_data, totals, pdf_path) ==
    [id |-> 0,
     order_number |-> invoice_data.order_number,
     invoice_date |-> StrftimeIso(invoice_data.invoice_date),
     billing_name |-> invoice_data.billing_name,
     billing_address |-> invoice_data.billing_address,
     billing_phone |-> invoice_data.billing_phone,
     currency |-> invoice_data.currency,
     subtotal |-> totals.subtotal,
     tax_amount |-> totals.tax_amount,
     discount_amount |-> totals.discount_amount,
     total |-> totals.total,
     pdf_path |-> pdf_path]

(***************************************************************************)
(* The texts the operator types.                                           *)
(***************************************************************************)
Day1Text == <<"2", "0", "2", "5", "-", "1", "1", "-", "1", "8">>

Day2Text == <<"2", "0", "2", "5", "-", "1", "1", "-", "1", "9">>

\* datetime.now().strftime("%Y-%m-%d") when the form is cleared
TodayText == Day1Text

EmptyRow == [description |-> <<>>, quantity |-> <<"1">>,
             unit_price |-> <<"0", ".", "0", "0">>]

PenRow == [description |-> <<"P", "e", "n">>, quantity |-> <<"2">>,
           unit_price |-> <<"5", "0", ".", "0">>]

InkRow == [description |-> <<"I", "n", "k">>, quantity |-> <<"1">>,
           unit_price |-> <<"3", "0", ".", "0">>]

CapRow == [description |-> <<"C", "a", "p">>, quantity |-> <<"1">>,
           unit_price |-> <<"1", ".", "0", "0", "4">>]

\* The form after clear_invoice_form (and at start-up).
ClearedForm ==
    [billing_name |-> PlaceholderName,
     billing_address |-> <<>>,
     billing_phone |-> PlaceholderPhone,
     date |-> TodayText,
     currency |-> "USD",
     tax_rate |-> <<"0">>,
     discount |-> <<"0">>,
     line_items |-> <<EmptyRow>>]

AnnForm ==
    [billing_name |-> <<"A", "n", "n">>,
     billing_address |-> <<"1", " ", "R", "d">>,
     billing_phone |-> <<"5", "5", "5">>,
     date |-> Day1Text,
     currency |-> "USD",
     tax_rate |-> <<"1", "0">>,
     discount |-> <<"5">>,
     line_items |-> <<PenRow, InkRow>>]

BobForm ==
    [AnnForm EXCEPT !.billing_name = <<"B", "o", "b">>,
                    !.currency = "EUR",
                    !.tax_rate = <<"5", "0">>,
                    !.discount = <<"0">>,
                    !.line_items = <<CapRow>>]

\* A discount greater than the subtotal and the tax together.
DebForm ==
    [AnnForm EXCEPT !.billing_name = <<"D", "e", "b">>,
                    !.discount = <<"2", "0", "0">>]

ValidForms == {AnnForm, BobForm, DebForm, [AnnForm EXCEPT !.date = Day2Text]}

\* Forms validate_invoice_form rejects.
RejectedForms ==
    {ClearedForm,
     [AnnForm EXCEPT !.billing_name = <<" ">>],
     [AnnForm EXCEPT !.billing_address = <<>>],
     [AnnForm EXCEPT !.billing_phone = <<>>],
     [AnnForm EXCEPT !.date = <<"1", "8", "/", "1", "1", "/", "2", "0", "2", "5">>],
     [AnnForm EXCEPT !.tax_rate = <<"-", "1">>],
     [AnnForm EXCEPT !.discount = <<"5", "-">>],
     [AnnForm EXCEPT !.line_items = <<>>],
     [AnnForm EXCEPT !.line_items = <<[PenRow EXCEPT !.quantity = <<"0">>]>>],
     [AnnForm EXCEPT !.line_items = <<EmptyRow>>],
     [AnnForm EXCEPT !.billing_name = <<>>, !.tax_rate = <<"-", "1">>]}

\* Forms validate_invoice_form accepts whose texts float() does not.
UnconvertibleForms ==
    {[AnnForm EXCEPT !.discount = <<>>],
     [AnnForm EXCEPT !.date = Day2Text, !.tax_rate = <<"$", "5">>],
     [AnnForm EXCEPT !.line_items =
                         <<[PenRow EXCEPT !.unit_price = <<"a", "b", "c">>]>>]}

Forms == ValidForms \cup RejectedForms \cup UnconvertibleForms

\* What the environment does to one attempt: the first step that fails, if
\* any (a step after a failed one is not reached, so one fault is enough).
NoFault == [folder_ok |-> TRUE, render |-> "ok", storage_ok |-> TRUE]

Envs == {NoFault,
         [NoFault EXCEPT !.folder_ok = FALSE],
         [NoFault EXCEPT !.render = "false"],
         [NoFault EXCEPT !.render = "partial"],
         [NoFault EXCEPT !.render = "raise"],
         [NoFault EXCEPT !.storage_ok = FALSE]}

\* validate_invoice_form and the conversions of collect_invoice_data read
\* the form only: their results for the forms of the model.
Validated == [f \in Forms |-> validate_invoice_form(f)]

Converted == [f \in Forms |-> ConvertedFields(f)]

InitialSettings ==
    [company_name |-> <<"A", "c", "e">>,
     company_address |-> <<"2", " ", "R", "d">>,
     company_phone |-> <<"1", "2", "3">>,
     logo_path |-> <<>>,
     default_currency |-> "USD",
     output_folder |-> <<"o", "u", "t">>]

\* The settings row an earlier session saved, at time 0.
InitialSettingsRow ==
    [id |-> 1,
     company_name |-> InitialSettings.company_name,
     company_address |-> InitialSettings.company_address,
     company_phone |-> InitialSettings.company_phone,
     logo_path |-> InitialSettings.logo_path,
     default_currency |-> InitialSettings.default_currency,
     output_folder |-> InitialSettings.output_folder,
     invoice_sequence |-> 0,
     created_at |-> 0,
     updated_at |-> 0]

\* No attempt of another application instance is in progress.
NoneRunning == [i \in {} |-> 0]

\* A row left by earlier sessions, the greatest of its day; the rows below
\* it are left out (the query reads the greatest only).
HistoryRow ==
    [id |-> 1,
     order_number |-> generate_order_number(strptime(Day1Text), 99999),
     invoice_date |-> Day1Text,
     billing_name |-> <<"E", "v", "e">>,
     billing_address |-> <<"3", " ", "R", "d">>,
     billing_phone |-> <<"7", "7", "7">>,
     currency |-> "USD",
     subtotal |-> 1 * Micro,
     tax_amount |-> 0,
     discount_amount |-> 0,
     total |-> 1 * Micro,
     pdf_path |-> PdfPath(<<"o", "u", "t">>,
                          generate_order_number(strptime(Day1Text), 99999))]

(***************************************************************************)
(* State.                                                                  *)
(***************************************************************************)
VARIABLES
    invoices,          \* the invoices table
    files,             \* the output files: path -> content
    company_settings,  \* the settings the application loaded
    form,              \* the contents of the invoice form
    last,              \* what the last generation attempt did
    allocations,       \* the order numbers handed to the attempts, in order
    attempts,          \* number of generation attempts so far
    settings,          \* the settings table
    saves,             \* number of settings forms submitted so far
    window,            \* "setup": the first-run wizard; "main": the main window
    running,           \* the attempts of application instances in progress
    arg,               \* argument of a function under test
    ret                \* its result

vars == <<invoices, files, company_settings, form, last, allocations,
          attempts, settings, saves, window, running, arg, ret>>

app_vars == <<invoices, files, company_settings, form, last, allocations, attempts,
              settings, saves, window, running>>

\* The record of one attempt: the form it read, the calls it made in order,
\* the message it showed, the order number it obtained, and the results of
\* mkdir, create_invoice_pdf and save_invoice ("none": not reached).
Attempt(f, events, message, date_str, order_number, folder, pdf, save) ==
    [form |-> f, events |-> events, message |-> message,
     date_str |-> date_str, order_number |-> order_number,
     folder_result |-> folder, pdf_result |-> pdf, save_result |-> save]

NoAttempt == Attempt(ClearedForm, <<>>, "", <<>>, <<>>, "none", "none", "none")

InitApp ==
    /\ invoices \in {<<>>, <<HistoryRow>>}
    /\ files = [p \in {} |-> 0]
    /\ company_settings = InitialSettings
    /\ form = ClearedForm
    /\ last = NoAttempt
    /\ allocations = <<>>
    /\ attempts = 0
    /\ settings = <<InitialSettingsRow>>
    /\ saves = 0
    /\ window = "main"
    /\ running = NoneRunning

Init == InitApp /\ arg = <<>> /\ ret = [done |-> FALSE]

(***************************************************************************)
(* generate_invoice: one press of the Generate button on form f, with the  *)
(* environment behaving as env.                                            *)
(***************************************************************************)
EvValidate == <<"validate_invoice_form">>

EvCollect == EvValidate \o <<"strptime", "get_next_invoice_sequence",
                             "generate_order_number">>

EvRender == EvCollect \o <<"mkdir", "create_invoice_pdf">>

\* After save_invoice the handler shows a warning when it returned False and,
\* in both cases, goes on to show_success_dialog and clear_invoice_form.
EvSave == EvRender \o <<"calculate_invoice_totals", "save_invoice">>

\* The entry of allocations for the order number collect_invoice_data built.
Allocated(c, was_saved) ==
    Append(allocations, [order_number |-> c.order_number, saved |-> was_saved])

\* The validation error is shown and the handler returns.
ReportInvalid(f, error_msg) ==
    /\ last' = Attempt(f, EvValidate \o <<"showerror">>, error_msg,
                       <<>>, <<>>, "none", "none", "none")
    /\ form' = f
    /\ UNCHANGED <<invoices, files, allocations>>

\* From the result of save_invoice to the end of the handler.
ReportSaved(f, k, c, pdf, saved) ==
    /\ last' = Attempt(f,
                       EvSave
                         \o (IF saved.ok THEN <<>> ELSE <<"showwarning">>)
                         \o <<"show_success_dialog", "clear_invoice_form">>,
                       IF saved.ok THEN ""
                       ELSE "PDF generated but failed to save invoice record to database",
                       k.date_str, c.order_number, "ok",
                       IF pdf.success THEN "ok" ELSE "false",
                       IF saved.ok THEN "ok" ELSE "failed")
    /\ form' = ClearedForm
    /\ files' = pdf.fs
    /\ invoices' = saved.table
    /\ allocations' = Allocated(c, saved.ok)

\* From the result of create_invoice_pdf on.
SaveRendered(f, env, k, c, pdf_path, pdf) ==
    IF pdf.raised \/ StopsWhenPdfFails(pdf.success)
    THEN /\ last' = Attempt(f, EvRender \o <<"showerror">>,
                            IF pdf.raised THEN "Error generating PDF"
                            ELSE "Failed to generate PDF",
                            k.date_str, c.order_number, "ok",
                            IF pdf.raised THEN "raised" ELSE "false", "none")
         /\ form' = f
         /\ files' = pdf.fs
         /\ allocations' = Allocated(c, FALSE)
         /\ UNCHANGED invoices
    ELSE ReportSaved(f, k, c, pdf,
             save_invoice(invoices,
                 InvoiceRow(c.invoice_data,
                     calculate_invoice_totals(c.items, c.invoice_data.tax_rate,
                                              c.invoice_data.discount_amount),
                     pdf_path),
                 env.storage_ok))

\* From the result of collect_invoice_data on.
RenderCollected(f, env, k, c, company_data, pdf_path) ==
    IF ~c.parsed
    THEN /\ last' = Attempt(f, EvValidate \o <<"strptime", "ValueError">>, "",
                            <<>>, <<>>, "none", "none", "none")
         /\ form' = f
         /\ UNCHANGED <<invoices, files, allocations>>
    ELSE IF c.raised
    THEN /\ last' = Attempt(f, EvCollect \o <<"ValueError">>, "",
                            k.date_str, c.order_number, "none", "none", "none")
         /\ form' = f
         /\ allocations' = Allocated(c, FALSE)
         /\ UNCHANGED <<invoices, files>>
    ELSE IF ~env.folder_ok
    THEN /\ last' = Attempt(f, EvCollect \o <<"mkdir", "showerror">>,
                            "Failed to create output folder",
                            k.date_str, c.order_number, "failed", "none", "none")
         /\ form' = f
         /\ allocations' = Allocated(c, FALSE)
         /\ UNCHANGED <<invoices, files>>
    ELSE SaveRendered(f, env, k, c, pdf_path,
             create_invoice_pdf(files, pdf_path,
                 InvoiceDocument(c.invoice_data, company_data, c.items),
                 env.render))

CollectValidated(f, env, k, c) ==
    RenderCollected(f, env, k, c,
        [company_name |-> company_settings.company_name,
         company_address |-> company_settings.company_address,
         company_phone |-> company_settings.company_phone,
         logo_path |-> company_settings.logo_path],
        PdfPath(company_settings.output_folder, c.order_number))

generate_invoice(f, env) ==
    /\ attempts < MaxAttempts
    /\ attempts' = attempts + 1
    /\ window = "main"
    /\ UNCHANGED <<company_settings, settings, saves, window, running, arg, ret>>
    /\ IF StopsWhenInvalid(Validated[f][1])
       THEN ReportInvalid(f, Validated[f][2])
       ELSE CollectValidated(f, env, Converted[f],
                collect_invoice_data(Converted[f], invoices))

GenerateInvoice == \E f \in Forms : \E env \in Envs : generate_invoice(f, env)

Next == GenerateInvoice

Spec == Init /\ [][Next]_vars

(***************************************************************************)
(* The settings flows: the first-run wizard (save_setup) and the settings  *)
(* dialog of the main window (save_settings), next to invoice generation.  *)
(***************************************************************************)
MaxSettingsSaves == 2

\* self.company_settings before load_company_settings has run.
NoSettings == [found |-> FALSE]

\* The columns of the settings row the application reads.
LoadedSettings(row) ==
    [company_name |-> row.company_name,
     company_address |-> row.company_address,
     company_phone |-> row.company_phone,
     logo_path |-> row.logo_path,
     default_currency |-> row.default_currency,
     output_folder |-> row.output_folder]

ZedSettings ==
    [company_name |-> <<"Z", "e", "d">>,
     company_address |-> <<"9", " ", "S", "t">>,
     company_phone |-> <<"4", "5", "6">>,
     logo_path |-> <<>>,
     default_currency |-> "EUR",
     output_folder |-> <<"p", "d", "f">>]

\* What the operator types into the wizard or the dialog.
SettingsForms ==
    {InitialSettings, ZedSettings, [ZedSettings EXCEPT !.company_name = <<" ">>]}

SettingsEnvs == {NoFault,
                 [NoFault EXCEPT !.folder_ok = FALSE],
                 [NoFault EXCEPT !.storage_ok = FALSE]}

\* The fields after .strip().
StrippedSettings(v) ==
    [v EXCEPT !.company_name = Strip(v.company_name),
              !.company_address = Strip(v.company_address),
              !.company_phone = Strip(v.company_phone),
              !.logo_path = Strip(v.logo_path),
              !.output_folder = Strip(v.output_folder)]

RequiredMissing(v) ==
    \/ v.company_name = <<>>
    \/ v.company_address = <<>>
    \/ v.company_phone = <<>>
    \/ v.output_folder = <<>>

\* Both handlers: the required fields are checked, the output folder is
\* created, the settings are saved and, after a successful save, loaded
\* again; each failure shows an error and leaves everything as it was.
SubmitSettings(v, env, saved, opened) ==
    /\ saves < MaxSettingsSaves
    /\ saves' = saves + 1
    /\ UNCHANGED <<invoices, files, form, last, allocations, attempts, running,
                   arg, ret>>
    /\ IF RequiredMissing(v) \/ ~env.folder_ok \/ ~saved.ok
       THEN UNCHANGED <<settings, company_settings, window>>
       ELSE /\ settings' = saved.table
            /\ company_settings' = LoadedSettings(get_company_settings(saved.table).row)
            /\ window' = opened

\* The "Save & Continue" button of the first-run wizard.
save_setup(v, env) ==
    /\ window = "setup"
    /\ SubmitSettings(StrippedSettings(v), env,
           save_company_settings(settings, StrippedSettings(v), saves + 1,
                                 env.storage_ok),
           "main")

\* The "Save Changes" button of the settings dialog.
save_settings(v, env) ==
    /\ window = "main"
    /\ SubmitSettings(StrippedSettings(v), env,
           save_company_settings(settings, StrippedSettings(v), saves + 1,
                                 env.storage_ok),
           "main")

SaveSetup == \E v \in SettingsForms : \E env \in SettingsEnvs : save_setup(v, env)

SaveSettings == \E v \in SettingsForms : \E env \in SettingsEnvs : save_settings(v, env)

\* The invoices generated between two visits of the settings are drawn from
\* the forms of the first day.
GenerateValid == \E f \in {AnnForm, BobForm} : \E env \in Envs : generate_invoice(f, env)

\* __init__: the wizard on a first run, the main window otherwise.
InitFirstRun ==
    /\ invoices = <<>>
    /\ files = [p \in {} |-> 0]
    /\ settings = <<>>
    /\ is_first_run(settings)
    /\ company_settings = NoSettings
    /\ window = "setup"
    /\ form = ClearedForm
    /\ last = NoAttempt
    /\ allocations = <<>>
    /\ attempts = 0
    /\ saves = 0
    /\ running = NoneRunning

InitSettings == (InitFirstRun \/ InitApp) /\ arg = <<>> /\ ret = [done |-> FALSE]

NextSettings == SaveSetup \/ SaveSettings \/ GenerateValid

SpecSettings == InitSettings /\ [][NextSettings]_vars

(***************************************************************************)
(* Two instances of the application on the same database file and output   *)
(* folder, each running generate_invoice once.  The handler of an instance *)
(* touches the shared state three times: the query of                      *)
(* collect_invoice_data, the file written by create_invoice_pdf, the       *)
(* INSERT of save_invoice; the other instance can run between them.        *)
(***************************************************************************)
Instances == {"first", "second"}

Idle == [pc |-> "idle"]

\* Validation and collect_invoice_data: the identifier is allocated from
\* the table as it is now (seen: its number of rows).
RaceCollect(i, f) ==
    /\ running[i].pc = "idle"
    /\ running' =
         [running EXCEPT ![i] =
            IF StopsWhenInvalid(Validated[f][1]) \/ Converted[f].raised
            THEN [pc |-> "done", form |-> f, date_str |-> <<>>, order_number |-> <<>>,
                  seen |-> Len(invoices), c |-> <<>>,
                  pdf_result |-> "none", storage_ok |-> TRUE, save_result |-> "none",
                  message |-> Validated[f][2]]
            ELSE [pc |-> "collected", form |-> f,
                  date_str |-> Converted[f].date_str,
                  order_number |-> collect_invoice_data(Converted[f], invoices).order_number,
                  seen |-> Len(invoices),
                  c |-> collect_invoice_data(Converted[f], invoices),
                  pdf_result |-> "none", storage_ok |-> TRUE, save_result |-> "none",
                  message |-> ""]]
    /\ UNCHANGED <<invoices, files, company_settings, form, last, allocations,
                   attempts, settings, saves, window, arg, ret>>

RaceRendered(i, r, pdf) ==
    /\ files' = pdf.fs
    /\ running' =
         [running EXCEPT ![i] =
            IF pdf.raised \/ StopsWhenPdfFails(pdf.success)
            THEN [r EXCEPT !.pc = "done",
                           !.pdf_result = IF pdf.raised THEN "raised" ELSE "false",
                           !.message = IF pdf.raised THEN "Error generating PDF"
                                       ELSE "Failed to generate PDF"]
            ELSE [r EXCEPT !.pc = "rendered", !.pdf_result = "ok"]]

\* The output folder is created and the PDF written at the path named by
\* the identifier.
RaceRender(i, env) ==
    /\ running[i].pc = "collected"
    /\ UNCHANGED <<invoices, company_settings, form, last, allocations,
                   attempts, settings, saves, window, arg, ret>>
    /\ IF ~env.folder_ok
       THEN /\ running' = [running EXCEPT ![i].pc = "done",
                                          ![i].message = "Failed to create output folder"]
            /\ UNCHANGED files
       ELSE RaceRendered(i, running[i],
                create_invoice_pdf(files,
                    PdfPath(company_settings.output_folder, running[i].order_number),
                    InvoiceDocument(running[i].c.invoice_data,
                        [company_name |-> company_settings.company_name,
                         company_address |-> company_settings.company_address,
                         company_phone |-> company_settings.company_phone,
                         logo_path |-> company_settings.logo_path],
                        running[i].c.items),
                    env.render))

RaceSaved(i, r, env, saved) ==
    /\ invoices' = saved.table
    /\ running' =
         [running EXCEPT ![i] =
            [r EXCEPT !.pc = "done",
                      !.storage_ok = env.storage_ok,
                      !.save_result = IF saved.ok THEN "ok" ELSE "failed",
                      !.message =
                          IF saved.ok THEN ""
                          ELSE "PDF generated but failed to save invoice record to database"]]

\* The totals are computed and the record is saved.
RaceSave(i, env) ==
    /\ running[i].pc = "rendered"
    /\ UNCHANGED <<files, company_settings, form, last, allocations,
                   attempts, settings, saves, window, arg, ret>>
    /\ RaceSaved(i, running[i], env,
           save_invoice(invoices,
               InvoiceRow(running[i].c.invoice_data,
                   calculate_invoice_totals(running[i].c.items,
                       running[i].c.invoice_data.tax_rate,
                       running[i].c.invoice_data.discount_amount),
                   PdfPath(company_settings.output_folder, running[i].order_number)),
               env.storage_ok))

InitRace ==
    /\ invoices \in {<<>>, <<HistoryRow>>}
    /\ files = [p \in {} |-> 0]
    /\ company_settings = InitialSettings
    /\ settings = <<InitialSettingsRow>>
    /\ window = "main"
    /\ form = ClearedForm
    /\ last = NoAttempt
    /\ allocations = <<>>
    /\ attempts = 0
    /\ saves = 0
    /\ running = [i \in Instances |-> Idle]
    /\ arg = <<>>
    /\ ret = [done |-> FALSE]

Collect == \E i \in Instances : \E f \in ValidForms \cup UnconvertibleForms : RaceCollect(i, f)

Render == \E i \in Instances : \E env \in Envs : RaceRender(i, env)

Save == \E i \in Instances : \E env \in Envs : RaceSave(i, env)

NextRace == Collect \/ Render \/ Save

SpecRace == InitRace /\ [][NextRace]_vars

(***************************************************************************)
(* calculate_invoice_totals on its own: the arguments are drawn at the     *)
(* start, the step applies the function.                                   *)
(***************************************************************************)
ItemChoices ==
    [description : {<<"P", "e", "n">>},
     quantity : {1, 2},
     unit_price : {50 * Micro, 30 * Micro, Micro + 4000}]

ItemLists == UNION {[1..n -> ItemChoices] : n \in 0..MaxItems}

TotalsArgs ==
    [items : ItemLists,
     tax_rate : {0, 10 * Micro, 50 * Micro},
     discount : {0, 5 * Micro, 4000, 200 * Micro}]

IdleApp ==
    /\ invoices = <<>>
    /\ files = [p \in {} |-> 0]
    /\ company_settings = InitialSettings
    /\ form = ClearedForm
    /\ last = NoAttempt
    /\ allocations = <<>>
    /\ attempts = 0
    /\ settings = <<InitialSettingsRow>>
    /\ saves = 0
    /\ window = "main"
    /\ running = NoneRunning

InitTotals == IdleApp /\ arg \in TotalsArgs /\ ret = [done |-> FALSE]

ComputeTotals ==
    /\ ~ret.done
    /\ ret' = [done |-> TRUE,
               value |-> calculate_invoice_totals(arg.items, arg.tax_rate, arg.discount)]
    /\ UNCHANGED <<app_vars, arg>>

SpecTotals == InitTotals /\ [][ComputeTotals]_vars

(***************************************************************************)
(* parse_currency_input and validate_positive_number on their own.         *)
(***************************************************************************)
ParseAlphabet == {"a", "b", "c", "1", "5", ".", ",", "-", " ", "$"}

ParseTexts == UNION {[1..n -> ParseAlphabet] : n \in 0..MaxTextLen}

InitParse == IdleApp /\ arg \in ParseTexts /\ ret = [done |-> FALSE]

ParseText ==
    /\ ~ret.done
    /\ ret' = [done |-> TRUE,
               parsed |-> parse_currency_input(arg),
               validated |-> validate_positive_number(arg, "Price")]
    /\ UNCHANGED <<app_vars, arg>>

SpecParse == InitParse /\ [][ParseText]_vars

(***************************************************************************)
(* format_currency followed by parse_currency_input: the amount and the    *)
(* currency code are drawn at the start.                                   *)
(***************************************************************************)
MaxCents == 60

CurrencyCodes == {"USD", "EUR", "LKR"}

\* Amounts of 2 fractional digits, below and above the first group of
\* thousands, and three amounts of 3 fractional digits away from a tie.
FormatAmounts ==
    {c * Cent : c \in (0..MaxCents) \cup {100000, 123456, 200000}}
        \cup {6000, Micro + 4000, 999 * Micro + 996000}

InitFormat ==
    /\ IdleApp
    /\ arg \in [amount : FormatAmounts, currency_code : CurrencyCodes]
    /\ ret = [done |-> FALSE]

FormatThenParse ==
    /\ ~ret.done
    /\ ret' = [done |-> TRUE,
               text |-> format_currency(arg.amount, arg.currency_code),
               back |-> parse_currency_input(
                            format_currency(arg.amount, arg.currency_code))]
    /\ UNCHANGED <<app_vars, arg>>

SpecFormat == InitFormat /\ [][FormatThenParse]_vars

(***************************************************************************)
(* get_next_invoice_sequence on its own: the table holds, for each of the  *)
(* two days, the invoices of a set of sequence numbers that need not be    *)
(* 1..n; the day asked for is drawn at the start.                          *)
(***************************************************************************)
StoredSequences == {1, 2, 9, 10, 100, 99998}

OtherDaySequences == {3, 99999}

StoredRow(day_text, sequence) ==
    [HistoryRow EXCEPT !.order_number = generate_order_number(strptime(day_text),
                                                              sequence),
                       !.invoice_date = day_text]

\* The rows of a set of sequence numbers, the greatest first or last.
RECURSIVE StoredRows(_, _, _)
StoredRows(day_text, sequences, greatest_first) ==
    IF sequences = {} THEN <<>>
    ELSE LET n == CHOOSE x \in sequences : \A y \in sequences : y <= x
             rest == StoredRows(day_text, sequences \ {n}, greatest_first)
         IN  IF greatest_first
             THEN <<StoredRow(day_text, n)>> \o rest
             ELSE rest \o <<StoredRow(day_text, n)>>

\* The rowid of a row is its position.
StoredTable(rows) == [i \in 1..Len(rows) |-> [rows[i] EXCEPT !.id = i]]

QueryArgs ==
    [day : {Day1Text, Day2Text},
     stored : SUBSET StoredSequences,
     other : SUBSET OtherDaySequences,
     greatest_first : BOOLEAN]

InitQuery ==
    /\ arg \in QueryArgs
    /\ invoices = StoredTable(
                      StoredRows(Day2Text, arg.other, arg.greatest_first)
                        \o StoredRows(Day1Text, arg.stored, arg.greatest_first))
    /\ files = [p \in {} |-> 0]
    /\ company_settings = InitialSettings
    /\ form = ClearedForm
    /\ last = NoAttempt
    /\ allocations = <<>>
    /\ attempts = 0
    /\ settings = <<InitialSettingsRow>>
    /\ saves = 0
    /\ window = "main"
    /\ running = NoneRunning
    /\ ret = [done |-> FALSE]

QuerySequence ==
    /\ ~ret.done
    /\ ret' = [done |-> TRUE,
               value |-> get_next_invoice_sequence(invoices,
                             get_date_string_for_sequence(strptime(arg.day)))]
    /\ UNCHANGED <<app_vars, arg>>

SpecQuery == InitQuery /\ [][QuerySequence]_vars

(***************************************************************************)
(* validate_invoice_form on its own: each field of the form is drawn at    *)
(* the start from texts the field accepts and texts it must reject, so     *)
(* that several fields are invalid at once.                                *)
(***************************************************************************)
BadDateText == <<"1", "8", "/", "1", "1", "/", "2", "0", "2", "5">>

ZeroQtyRow == [PenRow EXCEPT !.quantity = <<"0">>]

MinusPriceRow == [InkRow EXCEPT !.unit_price = <<"-", "1">>]

ZeroQtyMinusPriceRow == [ZeroQtyRow EXCEPT !.unit_price = <<"-", "1">>]

FormChoices ==
    [billing_name : {AnnForm.billing_name, <<" ">>},
     billing_address : {AnnForm.billing_address, <<>>},
     billing_phone : {AnnForm.billing_phone, <<" ">>},
     date : {Day1Text, BadDateText},
     currency : {"USD"},
     tax_rate : {<<"1", "0">>, <<"-", "1">>, <<"a", "b", "c">>},
     discount : {<<"5">>, <<"-", "5">>},
     line_items : {<<PenRow, InkRow>>,
                   <<ZeroQtyMinusPriceRow>>,
                   <<MinusPriceRow, ZeroQtyRow>>,
                   <<PenRow, ZeroQtyRow>>,
                   <<[ZeroQtyRow EXCEPT !.description = <<" ">>], MinusPriceRow>>,
                   <<>>}]

InitValidate ==
    /\ IdleApp
    /\ arg \in FormChoices
    /\ ret = [done |-> FALSE]

ValidateForm ==
    /\ ~ret.done
    /\ ret' = [done |-> TRUE, result |-> validate_invoice_form(arg)]
    /\ UNCHANGED <<app_vars, arg>>

SpecValidate == InitValidate /\ [][ValidateForm]_vars

(***************************************************************************)
(* InvoicePDF.generate on its own: the invoice data, the logo path, the    *)
(* items and the behaviour of the rendering backend are drawn at the       *)
(* start.                                                                  *)
(***************************************************************************)
MaxComposedItems == 4

ComposedItemChoices ==
    {[description |-> <<"P", "e", "n">>, quantity |-> 2, unit_price |-> 50 * Micro],
     [description |-> <<"C", "a", "p">>, quantity |-> 1, unit_price |-> Micro + 4000]}

ComposeArgs ==
    [items : UNION {[1..n -> ComposedItemChoices] : n \in 1..MaxComposedItems},
     currency : {"USD", "EUR"},
     tax_rate : {0, 10 * Micro},
     discount_amount : {0, 5 * Micro},
     logo_path : {<<>>, GoodLogoPath, BrokenLogoPath, MissingLogoPath},
     render : {"ok", "false"}]

ComposedInvoiceData(a) ==
    [order_number |-> generate_order_number(strptime(Day1Text), 1),
     invoice_date |-> strptime(Day1Text),
     billing_name |-> AnnForm.billing_name,
     billing_address |-> AnnForm.billing_address,
     billing_phone |-> AnnForm.billing_phone,
     currency |-> a.currency,
     tax_rate |-> a.tax_rate,
     discount_amount |-> a.discount_amount]

ComposedCompanyData(a) ==
    [company_name |-> InitialSettings.company_name,
     company_address |-> InitialSettings.company_address,
     company_phone |-> InitialSettings.company_phone,
     logo_path |-> a.logo_path]

ComposedPath == PdfPath(InitialSettings.output_folder,
                        generate_order_number(strptime(Day1Text), 1))

InitCompose ==
    /\ IdleApp
    /\ arg \in ComposeArgs
    /\ ret = [done |-> FALSE]

Generated(pdf) ==
    /\ ret' = [done |-> TRUE, success |-> pdf.success]
    /\ files' = pdf.fs

Generate ==
    /\ ~ret.done
    /\ Generated(create_invoice_pdf(files, ComposedPath,
                     InvoiceDocument(ComposedInvoiceData(arg),
                                     ComposedCompanyData(arg), arg.items),
                     arg.render))
    /\ UNCHANGED <<invoices, company_settings, form, last, allocations, attempts,
                   settings, saves, window, running, arg>>

SpecCompose == InitCompose /\ [][Generate]_vars

(***************************************************************************)
(* validate_invoice_form followed by collect_invoice_data, as              *)
(* generate_invoice calls them, on their own: the rows of the form are     *)
(* drawn at the start.                                                     *)
(***************************************************************************)
BlankRow == [ZeroQtyRow EXCEPT !.description = <<" ">>]

NanPriceRow == [CapRow EXCEPT !.unit_price = <<"n", "a", "n">>]

SymbolPriceRow == [CapRow EXCEPT !.unit_price = <<"$", "5">>]

RowChoices == {PenRow, InkRow, CapRow, BlankRow, ZeroQtyRow, MinusPriceRow,
               NanPriceRow, SymbolPriceRow}

CollectForms ==
    {[AnnForm EXCEPT !.line_items = rows, !.tax_rate = tax_rate] :
        rows \in UNION {[1..n -> RowChoices] : n \in 0..MaxItems},
        tax_rate \in {<<"1", "0">>, <<>>}}

InitCollect ==
    /\ IdleApp
    /\ arg \in CollectForms
    /\ ret = [done |-> FALSE]

\* reached = TRUE: the form was accepted and converted, and the handler
\* goes on to render the items and save the record.
ValidateAndCollect ==
    /\ ~ret.done
    /\ ret' = [done |-> TRUE,
               reached |-> /\ ~StopsWhenInvalid(validate_invoice_form(arg)[1])
                           /\ ~ConvertedFields(arg).raised,
               items |-> ConvertedFields(arg).items]
    /\ UNCHANGED <<app_vars, arg>>

SpecCollect == InitCollect /\ [][ValidateAndCollect]_vars

(***************************************************************************)
(* validate_invoice_form on forms whose customer name and phone are the    *)
(* placeholder texts, texts close to them, or blank.                       *)
(***************************************************************************)
NameChoices ==
    {AnnForm.billing_name, <<>>, <<" ">>, PlaceholderName,
     PlaceholderName \o <<" ">>, <<" ">> \o PlaceholderName,
     SubSeq(PlaceholderName, 1, 7), PlaceholderName \o <<"e">>,
     <<"j", "o", "h", "n", " ", "d", "o", "e">>}

PhoneChoices ==
    {AnnForm.billing_phone, <<>>, <<" ">>, PlaceholderPhone,
     PlaceholderPhone \o <<" ">>, <<" ", " ">> \o PlaceholderPhone,
     SubSeq(PlaceholderPhone, 1, 16), Tail(PlaceholderPhone)}

PlaceholderForms ==
    {[AnnForm EXCEPT !.billing_name = name, !.billing_phone = phone,
                     !.billing_address = address] :
        name \in NameChoices, phone \in PhoneChoices,
        address \in {AnnForm.billing_address, <<>>}}

InitPlaceholders ==
    /\ IdleApp
    /\ arg \in PlaceholderForms
    /\ ret = [done |-> FALSE]

SpecPlaceholders == InitPlaceholders /\ [][ValidateForm]_vars

(***************************************************************************)
(* Properties.                                                             *)
(***************************************************************************)
Day1Str == get_date_string_for_sequence(strptime(Day1Text))

Day2Str == get_date_string_for_sequence(strptime(Day2Text))

ModelDays == {Day1Str, Day2Str}

\* The sequence numbers persisted for a day.
DaySequences(table, date_str) ==
    {SequenceOf(o) : o \in MatchingOrderNumbers(table, date_str)}

DayOf(order_number) == SubSeq(order_number, 5, 12)

Called(a, name) == \E i \in 1..Len(a.events) : a.events[i] = name

\* A step of vars is one generation attempt.
AttemptMade == attempts' = attempts + 1

\* C1: in sequential use, an attempt that saves a record for a day whose
\* persisted sequence numbers are exactly 1..n (n = 0: a day with no
\* persisted invoice) is handed n + 1 and leaves the day with 1..n+1, so a
\* day that starts empty receives 1, 2, 3, ... without a gap; the records of
\* the other days play no part, and their numbers are left as they are.
C1_GapFreeFromEmptyDay ==
    [][\A d \in ModelDays : \A n \in 0..MaxAttempts :
          (/\ AttemptMade
           /\ last'.save_result = "ok"
           /\ last'.date_str = d
           /\ DaySequences(invoices, d) = 1..n)
          => /\ SequenceOf(last'.order_number) = n + 1
             /\ DaySequences(invoices', d) = 1..(n + 1)
             /\ \A e \in ModelDays \ {d} :
                    DaySequences(invoices', e) = DaySequences(invoices, e)]_vars

\* Two invoices were saved for the second day, numbered 1 and 2, while the
\* first day has a record of its own.
C1_Witness ==
    /\ DaySequences(invoices, Day2Str) = {1, 2}
    /\ DaySequences(invoices, Day1Str) # {}
    /\ last.save_result = "ok"
    /\ last.date_str = Day2Str

SameDay(i, j) == DayOf(allocations[i].order_number) = DayOf(allocations[j].order_number)

\* C2 as stated: the identifiers allocated to the successive attempts of a
\* day are strictly increasing, none being allocated to two attempts.
C2_AllocationsStrictlyIncrease ==
    \A i, j \in 1..Len(allocations) :
        (i < j /\ SameDay(i, j))
        => SequenceOf(allocations[i].order_number)
               < SequenceOf(allocations[j].order_number)

\* C2 amended: the identifiers allocated to the successive attempts of a day
\* never decrease; those of the attempts whose record was saved are strictly
\* increasing, and no identifier is persisted twice; an attempt that ends
\* without a persisted record leaves its identifier to the next attempt of
\* that day.
C2_SavedStrictlyIncrease ==
    /\ \A i, j \in 1..Len(allocations) :
          (i < j /\ SameDay(i, j))
          => /\ SequenceOf(allocations[i].order_number)
                    <= SequenceOf(allocations[j].order_number)
             /\ (allocations[i].saved /\ allocations[j].saved)
                    => SequenceOf(allocations[i].order_number)
                           < SequenceOf(allocations[j].order_number)
             /\ (/\ ~allocations[i].saved
                 /\ \A m \in (i + 1)..(j - 1) : ~SameDay(i, m))
                    => allocations[j].order_number = allocations[i].order_number
    /\ \A i, j \in 1..Len(invoices) :
          (i < j /\ DayOf(invoices[i].order_number) = DayOf(invoices[j].order_number))
          => SequenceOf(invoices[i].order_number) < SequenceOf(invoices[j].order_number)

\* An attempt ended without a record, and the next attempt of the day was
\* handed the same identifier and saved it.
C2_Witness ==
    /\ Len(allocations) = 2
    /\ allocations[1].order_number = allocations[2].order_number
    /\ ~allocations[1].saved
    /\ allocations[2].saved

\* C3: save_invoice called with an order number that is already persisted
\* returns failure and leaves the table as it was, every field of the
\* existing row included; no table holds two rows with one order number.
C3_DuplicateSaveFails ==
    [][/\ (/\ AttemptMade
           /\ Called(last', "save_invoice")
           /\ last'.order_number \in OrderNumbers(invoices))
          => (last'.save_result = "failed" /\ invoices' = invoices)
       /\ Cardinality(OrderNumbers(invoices')) = Len(invoices')]_vars

\* A save was refused for an order number whose row holds another
\* customer's invoice.
C3_Witness ==
    /\ last.save_result = "failed"
    /\ \E i \in 1..Len(invoices) :
          /\ invoices[i].order_number = last.order_number
          /\ invoices[i].billing_name # Strip(last.form.billing_name)

IsGreatest(S, n) == n \in S /\ \A m \in S : m <= n

\* C4: when the greatest sequence persisted for a day is 99999, the next
\* attempt for that day ends in a capacity error: no identifier with a
\* sequence wider than 5 digits, no PDF written, no record saved.
C4_CapacityErrorAt99999 ==
    [][\A d \in ModelDays :
          (/\ AttemptMade
           /\ last'.date_str = d
           /\ IsGreatest(DaySequences(invoices, d), 99999))
          => /\ Len(last'.order_number) <= Len(LikePattern(d)) + SeqWidth
             /\ files' = files
             /\ invoices' = invoices]_vars

\* C5: an attempt whose form fails validate_invoice_form ends before any
\* side effect: no sequence query, no PDF, no record.
C5_InvalidFormNoSideEffect ==
    [][(AttemptMade /\ ~validate_invoice_form(last'.form)[1])
          => /\ last'.events = <<"validate_invoice_form", "showerror">>
             /\ allocations' = allocations
             /\ files' = files
             /\ invoices' = invoices]_vars

\* An attempt with a blank customer name was rejected.
C5_Witness ==
    /\ attempts > 0
    /\ Strip(last.form.billing_name) = <<>>
    /\ last.message = "Customer name is required"
    /\ ~Called(last, "get_next_invoice_sequence")

\* C6: an attempt reports success only if save_invoice succeeded for it, so
\* that an attempt reported as successful has exactly one persisted row.
C6_SuccessOnlyIfSaved ==
    Called(last, "show_success_dialog")
    => /\ last.save_result = "ok"
       /\ Cardinality({i \in 1..Len(invoices) :
                          invoices[i].order_number = last.order_number}) = 1

\* C7: when the output folder cannot be created or create_invoice_pdf
\* returns False or raises, the attempt ends without calling save_invoice:
\* the table is unchanged and no success is reported.
C7_PdfFailureNoSave ==
    [][(/\ AttemptMade
        /\ \/ last'.folder_result = "failed"
           \/ last'.pdf_result \in {"false", "raised"})
          => /\ ~Called(last', "save_invoice")
             /\ ~Called(last', "show_success_dialog")
             /\ last'.save_result = "none"
             /\ invoices' = invoices]_vars

\* create_invoice_pdf returned False, leaving a truncated file.
C7_Witness ==
    /\ last.pdf_result = "false"
    /\ \E p \in DOMAIN files : ~files[p].complete
    /\ last.message = "Failed to generate PDF"

\* C8: the returned total is round(subtotal + tax_amount - discount_amount, 2)
\* of the returned (rounded) fields.
C8_TotalOfRoundedFields ==
    ret.done
    => ret.value.total
         = Round2(ret.value.subtotal + ret.value.tax_amount - ret.value.discount_amount)

\* r is x rounded to 2 fractional digits: a whole number of cents, at most
\* half a cent from x.
IsRounded2(r, x) ==
    /\ r % Cent = 0
    /\ 2 * (r - x) <= Cent
    /\ 2 * (x - r) <= Cent

ExactSubtotal(items) ==
    LET S[i \in 0..Len(items)] ==
            IF i = 0 THEN 0 ELSE S[i - 1] + items[i].quantity * items[i].unit_price
    IN  S[Len(items)]

\* tax_rate percent of amount; the rates used are whole percents and the
\* amounts whole ten-thousandths.
ExactTax(amount, tax_rate) == (amount \div 100) * (tax_rate \div Micro)

ExampleArgs ==
    [items |-> <<[description |-> <<"P", "e", "n">>, quantity |-> 2,
                  unit_price |-> 50 * Micro],
                 [description |-> <<"P", "e", "n">>, quantity |-> 1,
                  unit_price |-> 30 * Micro]>>,
     tax_rate |-> 10 * Micro,
     discount |-> 5 * Micro]

\* C9: subtotal, tax_amount, discount_amount and total are each the rounding
\* to 2 fractional digits of the unrounded sum of quantity * unit_price, of
\* that sum times tax_rate / 100, of the discount, and of sum + tax - discount;
\* for [(2, 50.0), (1, 30.0)], tax 10, discount 5: 130.00, 13.00, 5.00, 138.00.
C9_FieldsRoundedIndependently ==
    ret.done
    => LET st == ExactSubtotal(arg.items)
           tx == ExactTax(st, arg.tax_rate)
       IN  /\ IsRounded2(ret.value.subtotal, st)
           /\ IsRounded2(ret.value.tax_amount, tx)
           /\ IsRounded2(ret.value.discount_amount, arg.discount)
           /\ IsRounded2(ret.value.total, st + tx - arg.discount)
           /\ arg = ExampleArgs
                 => ret.value = [subtotal |-> 130 * Micro, tax_amount |-> 13 * Micro,
                                 discount_amount |-> 5 * Micro, total |-> 138 * Micro]

\* The documented example was computed.
C9_Witness == ret.done /\ arg = ExampleArgs /\ ret.value.total = 138 * Micro

\* C10: text that is not blank and holds no number is a parse error, and
\* validate_positive_number reports it as not a valid number.
C10_NonNumericTextRejected ==
    (/\ ret.done
     /\ Strip(arg) # <<>>
     /\ \A i \in 1..Len(arg) : ~IsDigit(arg[i]))
    => /\ ~ret.parsed.ok
       /\ ret.validated = <<FALSE, "Price must be a valid number">>

\* C11: formatting an amount of 2 fractional digits and parsing the text
\* back gives, without error, the amount again, for USD, EUR and LKR.
C11_FormatParseRoundTrip ==
    (ret.done /\ arg.amount % Cent = 0)
    => (ret.back.ok /\ ret.back.val = arg.amount)

Sep(currency_code) == IF currency_code = "EUR" THEN "." ELSE ","

Mark(currency_code) == IF currency_code = "EUR" THEN "," ELSE "."

\* The cents the digits of a formatted number spell, separators skipped.
SpelledCents(number) == ParseNat(SelectSeq(number, IsDigit))

\* C12: the text is the symbol followed by the number; the number ends in
\* the decimal mark and exactly 2 digits; before the mark, counted from the
\* mark, every 4th character is the group separator and the others are
\* digits, with a digit first; the separator is '.' and the mark ',' for
\* EUR, ',' and '.' for USD and LKR; the digits spell the amount rounded to
\* cents; 1234.56 gives "$1,234.56", "Rs. 1,234.56" and the swapped form.
C12_TwoDigitsGroupedSwappedForEur ==
    ret.done
    => LET code == arg.currency_code
           symbol == CurrencySymbol(code)
           number == SubSeq(ret.text, Len(symbol) + 1, Len(ret.text))
           n == Len(number)
       IN  /\ SubSeq(ret.text, 1, Len(symbol)) = symbol
           /\ n >= 4
           /\ number[n - 2] = Mark(code)
           /\ IsDigit(number[n - 1]) /\ IsDigit(number[n])
           /\ IsDigit(number[1])
           /\ \A i \in 1..(n - 3) :
                  IF (n - 2 - i) % 4 = 0 THEN number[i] = Sep(code)
                  ELSE IsDigit(number[i])
           /\ (n > 4 => number[1] # "0")
           /\ 2 * (SpelledCents(number) * (Cent \div 1000) - arg.amount \div 1000)
                  <= Cent \div 1000
           /\ 2 * (arg.amount \div 1000 - SpelledCents(number) * (Cent \div 1000))
                  <= Cent \div 1000
           /\ arg.amount = 123456 * Cent
                 => ret.text =
                      IF code = "USD"
                      THEN <<"$", "1", ",", "2", "3", "4", ".", "5", "6">>
                      ELSE IF code = "LKR"
                      THEN <<"R", "s", ".", " ", "1", ",", "2", "3", "4", ".", "5", "6">>
                      ELSE <<EuroSign, "1", ".", "2", "3", "4", ",", "5", "6">>

\* 1234.56 was formatted for EUR.
C12_Witness ==
    /\ ret.done
    /\ arg = [amount |-> 123456 * Cent, currency_code |-> "EUR"]
    /\ ret.text[3] = "."

\* The texts of the rows of a totals table that carry a label.
Shown(section, label) ==
    {section[i].text : i \in {j \in 1..Len(section) : section[j].label = label}}

\* C13: after an attempt that rendered the PDF and saved the record, each
\* amount of the totals block of the document written at the record's
\* pdf_path is the stored amount of the record, formatted in its currency:
\* the subtotal and the total always, the tax and the discount when their
\* row is shown; a row that is not shown stands for a stored amount of 0.
C13_DocumentTotalsAreStoredTotals ==
    [][(AttemptMade /\ last'.save_result = "ok")
          => LET row == invoices'[Len(invoices')]
                 section == files'[row.pdf_path].document.totals_section
                 money(x) == format_currency(x, row.currency)
             IN  /\ Shown(section, "Subtotal:") = {money(row.subtotal)}
                 /\ Shown(section, "TOTAL DUE:") = {money(row.total)}
                 /\ Shown(section, "Tax:") \in {{money(row.tax_amount)}, {}}
                 /\ Shown(section, "Discount:")
                        \in {{<<"-", " ">> \o money(row.discount_amount)}, {}}
                 /\ Shown(section, "Tax:") = {} => row.tax_amount = 0
                 /\ Shown(section, "Discount:") = {} => row.discount_amount = 0]_vars

\* A record with a tax and a discount was saved and its document shows the
\* four rows.
C13_Witness ==
    /\ last.save_result = "ok"
    /\ \E i \in 1..Len(invoices) :
          /\ invoices[i].order_number = last.order_number
          /\ invoices[i].discount_amount > 0
          /\ invoices[i].tax_amount > 0
          /\ invoices[i].pdf_path \in DOMAIN files
          /\ Len(files[invoices[i].pdf_path].document.totals_section) = 4

\* Position of the first call of name in an attempt, 0 when it made none.
Pos(a, name) ==
    IF Called(a, name)
    THEN CHOOSE i \in 1..Len(a.events) :
             a.events[i] = name /\ \A j \in 1..(i - 1) : a.events[j] # name
    ELSE 0

FileNameOf(path, folder) == SubSeq(path, Len(folder) + 2, Len(path) - 4)

\* C14: in an attempt, the date is parsed before the identifier is
\* allocated, the identifier is allocated before the PDF is rendered, and
\* the PDF is rendered before the record is saved, each step being reached
\* only after the one before it; the identifier in the rendered document,
\* the name of the PDF file and the order_number of the saved record are the
\* string the attempt allocated.
C14_OrderOfStepsAndOneIdentifier ==
    [][AttemptMade
          => LET a == last'
                 parse == Pos(a, "strptime")
                 alloc == Pos(a, "get_next_invoice_sequence")
                 render == Pos(a, "create_invoice_pdf")
                 save == Pos(a, "save_invoice")
                 path == PdfPath(company_settings.output_folder, a.order_number)
             IN  /\ alloc > 0 => (0 < parse /\ parse < alloc)
                 /\ render > 0 => (0 < alloc /\ alloc < render)
                 /\ save > 0 => (0 < render /\ render < save)
                 /\ (a.pdf_result = "ok") = (save > 0)
                 /\ a.pdf_result = "ok"
                       => /\ path \in DOMAIN files'
                          /\ files'[path].document.order_number = a.order_number
                          /\ FileNameOf(path, company_settings.output_folder)
                                 = a.order_number
                 /\ a.save_result = "ok"
                       => /\ invoices'[Len(invoices')].order_number = a.order_number
                          /\ invoices'[Len(invoices')].pdf_path = path
                          /\ path \in DOMAIN files'
                          /\ a.order_number
                                 = generate_order_number(strptime(a.form.date),
                                       SequenceOf(a.order_number))]_vars

\* An attempt went through the four steps and saved its record.
C14_Witness ==
    /\ last.save_result = "ok"
    /\ Pos(last, "strptime") = 2
    /\ Pos(last, "save_invoice") = 8
    /\ \E p \in DOMAIN files : files[p].document.order_number = last.order_number

\* C16: no step (a generation attempt, with its save succeeding or failing,
\* or a submission of the settings) changes or removes a persisted invoice
\* record: the table after the step starts with the table before it.
C16_PersistedRecordsNeverChange ==
    [][/\ Len(invoices') >= Len(invoices)
       /\ \A i \in 1..Len(invoices) : invoices'[i] = invoices[i]]_vars

\* A record is persisted, a later save for its order number was refused,
\* and the settings were then updated.
C16_Witness ==
    /\ Len(invoices) >= 1
    /\ last.save_result = "failed"
    /\ last.order_number \in OrderNumbers(invoices)
    /\ saves >= 1
    /\ settings # <<>> /\ settings[1].updated_at = saves

SettingsTableOk(settings_table) ==
    /\ Len(settings_table) <= 1
    /\ \A i \in 1..Len(settings_table) : settings_table[i].id = 1
    /\ is_first_run(settings_table) = (settings_table = <<>>)

\* What save_company_settings returns for the values v on the table of the
\* state: a table of one row with id 1 and the values, inserted when the
\* table was empty and otherwise the same row with the other columns kept;
\* a failure leaves the table as it was.
SavesInPlace(v) ==
    LET r == save_company_settings(settings, v, saves + 1, TRUE)
        e == save_company_settings(settings, v, saves + 1, FALSE)
    IN  /\ r.ok
        /\ SettingsTableOk(r.table)
        /\ ~is_first_run(r.table)
        /\ LoadedSettings(r.table[1]) = v
        /\ r.table[1].updated_at = saves + 1
        /\ IF settings = <<>>
           THEN r.table[1].created_at = saves + 1
           ELSE /\ r.table[1].created_at = settings[1].created_at
                /\ r.table[1].invoice_sequence = settings[1].invoice_sequence
        /\ ~e.ok /\ e.table = settings

\* C20: the settings table holds at most one row, with id 1, before and
\* after every step; save_company_settings inserts the row when there is
\* none and updates it in place otherwise; is_first_run is True exactly when
\* the table is empty, is False once the main window is open, and once
\* False stays False.
C20_SettingsSingleton ==
    [][/\ SettingsTableOk(settings) /\ SettingsTableOk(settings')
       /\ \A v \in SettingsForms : SavesInPlace(v)
       /\ ~is_first_run(settings) => ~is_first_run(settings')
       /\ window' = "main" => ~is_first_run(settings')
       /\ settings' # settings
             => \E v \in SettingsForms :
                    settings' = save_company_settings(settings, StrippedSettings(v),
                                                      saves + 1, TRUE).table]_vars

\* The wizard inserted the row on a first run and the settings dialog then
\* updated it.
C20_Witness ==
    /\ Len(settings) = 1
    /\ settings[1].created_at = 1
    /\ settings[1].updated_at = 2
    /\ company_settings = ZedSettings

Allocated2(i) == running[i].pc \in {"collected", "rendered"}

\* C15: two attempts for the same day that have both allocated while
\* neither has saved hold the same identifier; of two attempts that called
\* save_invoice with the same identifier at most one succeeded, and when
\* the storage failed neither, exactly one succeeded and the other was
\* refused and reported the failure; no two persisted records share an
\* identifier.
C15_RaceSameIdentifierOneSave ==
    /\ \A i, j \in Instances :
          (i # j /\ Allocated2(i) /\ Allocated2(j)
                 /\ running[i].date_str = running[j].date_str)
          => running[i].order_number = running[j].order_number
    /\ \A i, j \in Instances :
          (/\ i # j
           /\ running[i].pc = "done" /\ running[j].pc = "done"
           /\ running[i].save_result # "none" /\ running[j].save_result # "none"
           /\ running[i].order_number = running[j].order_number)
          => /\ ~(running[i].save_result = "ok" /\ running[j].save_result = "ok")
             /\ (running[i].storage_ok /\ running[j].storage_ok)
                   => \E a, b \in Instances :
                          /\ a # b
                          /\ running[a].save_result = "ok"
                          /\ running[b].save_result = "failed"
                          /\ running[b].message
                               = "PDF generated but failed to save invoice record to database"
    /\ Cardinality(OrderNumbers(invoices)) = Len(invoices)

\* Both attempts allocated from the empty table; one saved and the other's
\* save was then refused for the identifier they share.
C15_Witness ==
    /\ running["first"].pc = "done" /\ running["second"].pc = "done"
    /\ running["first"].seen = 0 /\ running["second"].seen = 0
    /\ running["first"].order_number = running["second"].order_number
    /\ running["first"].form # running["second"].form
    /\ running["first"].save_result = "failed"
    /\ running["first"].storage_ok
    /\ running["second"].save_result = "ok"
    /\ Len(invoices) = 1

\* C17: the file at the pdf_path of every persisted record holds what a
\* render that reported success wrote; a failed or partial render leaves
\* nothing at a path a persisted record refers to.
C17_PersistedPathsHoldCompleteArtifacts ==
    \A i \in 1..Len(invoices) :
        invoices[i].pdf_path \in DOMAIN files => files[invoices[i].pdf_path].complete

\* Text that is not blank and holds no digit.
NonNumeric(text) ==
    Strip(text) # <<>> /\ \A i \in 1..Len(text) : ~IsDigit(text[i])

HasNonNumericMoney(f) ==
    \/ NonNumeric(f.tax_rate)
    \/ NonNumeric(f.discount)
    \/ \E i \in 1..Len(f.line_items) :
          HasDescription(f.line_items[i]) /\ NonNumeric(f.line_items[i].unit_price)

\* C18: an attempt on a form that is otherwise complete and has non-numeric
\* text in the tax rate, the discount or the unit price of an item with a
\* description ends with the validation error, before
\* get_next_invoice_sequence is called.
C18_NonNumericMoneyIsValidationError ==
    [][(AttemptMade /\ HasNonNumericMoney(last'.form))
          => /\ last'.events = <<"validate_invoice_form", "showerror">>
             /\ ~Called(last', "get_next_invoice_sequence")
             /\ allocations' = allocations]_vars

\* The amounts of a collected form, before any rounding.
ExactTotal(k) ==
    ExactSubtotal(k.items)
        + ExactTax(ExactSubtotal(k.items), k.fields.tax_rate)
        - k.fields.discount_amount

DiscountExceeds(f) ==
    /\ Validated[f][1]
    /\ ~Converted[f].raised
    /\ ExactTotal(Converted[f]) < 0

\* C19: an attempt whose discount exceeds the subtotal and the tax together
\* is rejected at no step: validation passes and the identifier is
\* allocated; unless the folder or the render fails the PDF is written, and
\* it shows the negative total; unless the save fails the record is
\* persisted with that total, below zero.
C19_NegativeTotalNotRejected ==
    [][(AttemptMade /\ DiscountExceeds(last'.form))
          => LET a == last'
                 total == Round2(ExactTotal(Converted[a.form]))
                 path == PdfPath(company_settings.output_folder, a.order_number)
             IN  /\ total < 0
                 /\ Called(a, "get_next_invoice_sequence")
                 /\ "showerror" \notin {a.events[i] : i \in 1..Len(a.events)}
                       \/ a.folder_result = "failed"
                       \/ a.pdf_result \in {"false", "raised"}
                 /\ a.pdf_result = "ok"
                       => /\ Called(a, "save_invoice")
                          /\ Shown(files'[path].document.totals_section, "TOTAL DUE:")
                                 = {format_currency(total, a.form.currency)}
                 /\ a.save_result = "ok"
                       => /\ invoices'[Len(invoices')].total = total
                          /\ invoices'[Len(invoices')].total < 0]_vars

\* A record with a total below zero is persisted and its PDF written.
C19_Witness ==
    /\ last.save_result = "ok"
    /\ DiscountExceeds(last.form)
    /\ \E i \in 1..Len(invoices) :
          /\ invoices[i].total = 0 - 57 * Micro
          /\ invoices[i].pdf_path \in DOMAIN files

\* The names under which an amount computed beforehand would be handed to
\* the composer.
TotalsKeys == {"subtotal", "tax_amount", "total", "totals", "line_total"}

\* The amounts the composer is handed: those fields of the invoice data and
\* of the items that carry a computed amount.
AmountsPassedIn(invoice_data, items) ==
    (DOMAIN invoice_data \cup UNION {DOMAIN items[i] : i \in 1..Len(items)})
        \cap TotalsKeys

StoredForDay == IF arg.day = Day1Text THEN arg.stored ELSE arg.other

\* C22: when the sequence numbers persisted for the day asked for are all at
\* most 99998, whether or not they are 1..n, get_next_invoice_sequence
\* returns 1 + the numerically greatest of them (1 when the day has none),
\* whatever the rows of the other day and the order of the rows are.
C22_NextIsOnePlusNumericGreatest ==
    (ret.done /\ \A n \in StoredForDay : n <= 99998)
        => /\ StoredForDay = {} => ret.value = 1
           /\ StoredForDay # {}
                 => \E n \in StoredForDay :
                       /\ \A m \in StoredForDay : m <= n
                       /\ ret.value = n + 1

\* The day asked for holds 2, 10 and 100 but not 1 or 9, among rows of the
\* other day, and the query answered 101.
C22_Witness ==
    /\ ret.done
    /\ arg.day = Day1Text
    /\ arg.stored = {2, 10, 100}
    /\ arg.other = {3, 99999}
    /\ Len(invoices) = 5
    /\ ret.value = 101

\* A check of one field: whether the field is in violation and the error
\* reported for it.
Check(bad, message) == [bad |-> bad, message |-> message]

\* A monetary field is in violation when its text is not numeric or its
\* number is negative.
MoneyCheck(text, field_name, prefix) ==
    IF NonNumeric(text) \/ ~parse_currency_input(text).ok
    THEN Check(TRUE, prefix \o field_name \o " must be a valid number")
    ELSE Check(parse_currency_input(text).val < 0,
               prefix \o field_name \o " must be a positive number")

QuantityCheck(text) ==
    IF ~PyInt(text).ok
    THEN Check(TRUE, "Invalid quantity: Quantity must be a valid integer")
    ELSE Check(PyInt(text).val <= 0, "Invalid quantity: Quantity must be greater than 0")

\* The checks of the rows with a description, in list order, the quantity
\* of a row before its unit price.
RECURSIVE ItemChecks(_)
ItemChecks(line_items) ==
    IF line_items = <<>> THEN <<>>
    ELSE (IF HasDescription(Head(line_items))
          THEN <<QuantityCheck(Head(line_items).quantity),
                 MoneyCheck(Head(line_items).unit_price, "Unit price",
                            "Invalid price: ")>>
          ELSE <<>>)
         \o ItemChecks(Tail(line_items))

\* The checks of a form in the fixed order of the fields.
FieldChecks(f) ==
    <<Check(Strip(f.billing_name) \in {<<>>, PlaceholderName},
            "Customer name is required"),
      Check(Strip(f.billing_address) = <<>>, "Billing address is required"),
      Check(Strip(f.billing_phone) \in {<<>>, PlaceholderPhone},
            "Phone number is required"),
      Check(~strptime(f.date).ok, "Invalid date format (use YYYY-MM-DD)"),
      MoneyCheck(f.tax_rate, "Tax rate", ""),
      MoneyCheck(f.discount, "Discount", "")>>
        \o ItemChecks(f.line_items)

InViolation(check) == check.bad

\* C23: when one or more fields of the form are in violation, the result
\* of validate_invoice_form is the error of the first of them in the order
\* customer name, billing address, phone, date, tax rate, discount, line
\* items in list order with the quantity of a row before its unit price.
C23_FirstViolationReported ==
    (ret.done /\ FirstIndex(FieldChecks(arg), InViolation) # 0)
        => ret.result
             = <<FALSE,
                 FieldChecks(arg)[FirstIndex(FieldChecks(arg), InViolation)].message>>

\* The labels of the rows of a totals block, in order.
Labels(section) == [i \in 1..Len(section) |-> section[i].label]

\* C24: the totals block of a generated document starts with the subtotal
\* row and ends with the grand total row; between them it holds the tax row
\* exactly when the tax rate is above 0 and the discount row exactly when
\* the discount is above 0, the tax row before the discount row.
C24_TotalsBlockRows ==
    (ret.done /\ ret.success)
        => Labels(files[ComposedPath].document.totals_section)
             = <<"Subtotal:">>
                 \o (IF arg.tax_rate > 0 THEN <<"Tax:">> ELSE <<>>)
                 \o (IF arg.discount_amount > 0 THEN <<"Discount:">> ELSE <<>>)
                 \o <<"TOTAL DUE:">>

\* Documents were generated with no tax and a discount: three rows.
C24_Witness ==
    /\ ret.done
    /\ ret.success
    /\ arg.tax_rate = 0
    /\ arg.discount_amount > 0
    /\ Len(files[ComposedPath].document.totals_section) = 3

\* C25: the spacing scale of a generated document is 0.6 when it has 3
\* items or fewer and 1.0 when it has more, whatever the items, the
\* currency, the tax rate, the discount and the logo are.
C25_SpacingScaleByItemCount ==
    (ret.done /\ ret.success)
        => files[ComposedPath].document.spacer_scale
             = (IF Len(arg.items) <= 3 THEN 6 ELSE 10)

\* A document of 4 items got the normal spacing; its quantities add up
\* to more than 4.
C25_Witness ==
    /\ ret.done
    /\ ret.success
    /\ Len(arg.items) = 4
    /\ TotalQuantity(arg.items) > 4
    /\ files[ComposedPath].document.spacer_scale = 10

LogoKinds(header) == {header[i].kind : i \in 1..Len(header)}

\* C26: when the logo path names no file or a file that cannot be opened as
\* an image, generate returns True unless the rendering backend failed, and
\* the header of the document holds the company name, address and phone and
\* no logo.
C26_BadLogoDoesNotFailRendering ==
    (ret.done /\ arg.logo_path \in {BrokenLogoPath, MissingLogoPath})
        => /\ process_logo(arg.logo_path) = NoLogo
           /\ ret.success = (arg.render = "ok")
           /\ ret.success
                 => LogoKinds(files[ComposedPath].document.header)
                      = {"company_name", "company_address", "company_phone"}

\* Documents were generated with an unreadable logo file.
C26_Witness ==
    /\ ret.done
    /\ ret.success
    /\ arg.logo_path = BrokenLogoPath
    /\ Len(files[ComposedPath].document.header) = 3

\* C27: an attempt on a form that validate_invoice_form accepts does not
\* end with a ValueError of collect_invoice_data, neither before nor after
\* get_next_invoice_sequence was called.
C27_AcceptedFormsConvert ==
    [][(AttemptMade /\ Validated[last'.form][1])
          => /\ ~Called(last', "ValueError")
             /\ Called(last', "get_next_invoice_sequence")
                   => Called(last', "mkdir")]_vars

\* C28: the file at the pdf_path of every persisted record holds the
\* document of the attempt that saved the record: its order number, its
\* customer, its items' totals; no later attempt wrote to that path.
C28_PersistedFileIsOfItsRecord ==
    \A i \in 1..Len(invoices) :
        invoices[i].pdf_path \in DOMAIN files
            => LET document == files[invoices[i].pdf_path].document
               IN  /\ document.order_number = invoices[i].order_number
                   /\ document.billing_name = invoices[i].billing_name
                   /\ document.totals.subtotal = invoices[i].subtotal
                   /\ document.totals.tax_amount = invoices[i].tax_amount
                   /\ document.totals.discount_amount = invoices[i].discount_amount
                   /\ document.totals.total = invoices[i].total

\* The descriptions of the rows of the form that have one, in form order.
DescribedRows(f) ==
    LET rows == SelectSeq(f.line_items, HasDescription)
    IN  [i \in 1..Len(rows) |-> Strip(rows[i].description)]

\* C29: the items of a form that was accepted and converted, which the
\* handler renders and saves, are one or more; each has a description that
\* is not empty, a quantity of 1 or more and a unit price that is a number
\* of 0 or more; they are the rows of the form that have a description, in
\* the order of the form, the rows without one being left out unchecked.
C29_RenderedItemsAreValid ==
    (ret.done /\ ret.reached)
        => /\ Len(ret.items) >= 1
           /\ \A i \in 1..Len(ret.items) :
                 /\ ret.items[i].description # <<>>
                 /\ ret.items[i].quantity >= 1
                 /\ ret.items[i].unit_price # NaN
                 /\ ret.items[i].unit_price >= 0
           /\ [i \in 1..Len(ret.items) |-> ret.items[i].description]
                 = DescribedRows(arg)

NameRequired == <<FALSE, "Customer name is required">>

PhoneRequired == <<FALSE, "Phone number is required">>

Blank(text) == \A i \in 1..Len(text) : IsSpace(text[i])

\* C30 (as stated): a name that is exactly the placeholder "John Doe" is
\* rejected with "Customer name is required" and every other name that is
\* not blank passes the name check; once the name and the address pass, a
\* phone that is exactly the placeholder "+1 (555) 123-4567" is rejected
\* with "Phone number is required" and every other phone that is not blank
\* passes the phone check.
C30_ExactPlaceholdersRejected ==
    ret.done
        => /\ arg.billing_name = PlaceholderName => ret.result = NameRequired
           /\ (arg.billing_name # PlaceholderName /\ ~Blank(arg.billing_name))
                 => ret.result # NameRequired
           /\ (ret.result # NameRequired /\ ~Blank(arg.billing_address))
                 => /\ arg.billing_phone = PlaceholderPhone
                          => ret.result = PhoneRequired
                    /\ (arg.billing_phone # PlaceholderPhone
                          /\ ~Blank(arg.billing_phone))
                          => ret.result # PhoneRequired

\* The text is the placeholder with blanks, if any, before and after it.
PaddedPlaceholder(text, placeholder) ==
    \E before \in 0..Len(text) :
        /\ before + Len(placeholder) <= Len(text)
        /\ SubSeq(text, before + 1, before + Len(placeholder)) = placeholder
        /\ Blank(SubSeq(text, 1, before))
        /\ Blank(SubSeq(text, before + Len(placeholder) + 1, Len(text)))

\* C30 (amended): the name is compared after its surrounding blanks are
\* removed: a name that is the placeholder "John Doe", with or without
\* blanks around it, or blank, is rejected with "Customer name is required"
\* and every other name passes the name check; once the name and the address
\* pass, the same holds of the phone, the placeholder "+1 (555) 123-4567"
\* and "Phone number is required".
C30_StrippedPlaceholdersRejected ==
    ret.done
        => /\ (PaddedPlaceholder(arg.billing_name, PlaceholderName)
                 \/ Blank(arg.billing_name))
                 <=> ret.result = NameRequired
           /\ (ret.result # NameRequired /\ ~Blank(arg.billing_address))
                 => ((PaddedPlaceholder(arg.billing_phone, PlaceholderPhone)
                       \/ Blank(arg.billing_phone))
                       <=> ret.result = PhoneRequired)

\* A form whose name passes and whose phone is the placeholder followed by
\* a blank was rejected for its phone.
C30_Witness ==
    /\ ret.done
    /\ arg.billing_name = SubSeq(PlaceholderName, 1, 7)
    /\ arg.billing_phone = PlaceholderPhone \o <<" ">>
    /\ ret.result = PhoneRequired
====
